---- MODULE Spec2Model ----
(***************************************************************************)
(* Model of assets/codes/2018-06-16_pytorch_automatic_differentiation.py:  *)
(* a linear script that evaluates an equation of state with numpy and with *)
(* torch, differentiates it twice with torch.autograd.grad, and compares   *)
(* the first-order derivatives with closed-form ones.                      *)
(*                                                                         *)
(* Floating-point values are modelled by a binary floating-point format    *)
(* with a Prec-bit significand, round-to-nearest-even, signed zeros,       *)
(* infinities and NaN (the exponent range is unbounded).  The autograd     *)
(* graph is modelled as a tape of nodes, each holding its forward value.   *)
(***************************************************************************)
EXTENDS Integers, Sequences, FiniteSets, TLC

(***************************************************************************)
(* Floating point                                                          *)
(***************************************************************************)

\* significand width of the modelled floating-point format
Prec == 28

TwoP == 2^Prec

HalfP == 2^(Prec - 1)

\* a finite number s * m * 2^e, m = 0 or HalfP <= m < TwoP
Num(s, m, e) == [k |-> "num", s |-> s, m |-> m, e |-> e]

Zero(s) == [k |-> "num", s |-> s, m |-> 0, e |-> 0]

Inf(s) == [k |-> "inf", s |-> s, m |-> 0, e |-> 0]

NaN == [k |-> "nan", s |-> 1, m |-> 0, e |-> 0]

IsNaN(x) == x.k = "nan"

IsInf(x) == x.k = "inf"

IsFinite(x) == x.k = "num"

IsZero(x) == x.k = "num" /\ x.m = 0

\* number of bits of the integer 0 <= x < 2^31
BitLen(x) == CHOOSE L \in 0..31 : (L = 31 \/ x < 2^L) /\ (L = 0 \/ x >= 2^(L - 1))

\* mant + num/den (0 <= num < den) rounded to nearest, ties to even
RoundNearestEven(mant, num, den) ==
    IF 2 * num > den \/ (2 * num = den /\ mant % 2 = 1) THEN mant + 1 ELSE mant

\* s * (mant + num/den) * 2^e with HalfP <= mant < TwoP, rounded
Rounded(s, mant, num, den, e) ==
    LET r == RoundNearestEven(mant, num, den)
    IN  IF r = TwoP THEN Num(s, HalfP, e + 1) ELSE Num(s, r, e)

\* s * x * 2^e for an integer 0 <= x < 2^31, normalised and rounded
Normal(s, x, e) ==
    IF x = 0 THEN Zero(s)
    ELSE LET L == BitLen(x)
         IN  IF L > Prec
             THEN LET d == 2^(L - Prec)
                  IN  Rounded(s, x \div d, x % d, d, e + (L - Prec))
             ELSE Num(s, x * 2^(Prec - L), e - (Prec - L))

FromInt(i) == IF i < 0 THEN Normal(-1, -i, 0) ELSE Normal(1, i, 0)

FNeg(x) == IF IsNaN(x) THEN x ELSE [x EXCEPT !.s = -x.s]

FAbs(x) == IF IsNaN(x) THEN x ELSE [x EXCEPT !.s = 1]

\* magnitude of the finite number x is below that of the finite number y
MagLess(x, y) ==
    IF x.m = 0 THEN y.m # 0
    ELSE IF y.m = 0 THEN FALSE
    ELSE x.e < y.e \/ (x.e = y.e /\ x.m < y.m)

\* x < y on numbers that are not NaN
FLess(x, y) ==
    CASE IsNaN(x) \/ IsNaN(y) -> FALSE
      [] IsInf(x) -> x.s = -1 /\ ~(IsInf(y) /\ y.s = -1)
      [] IsInf(y) -> y.s = 1
      [] x.m = 0 /\ y.m = 0 -> FALSE
      [] x.m = 0 -> y.s = 1
      [] y.m = 0 -> x.s = -1
      [] x.s # y.s -> x.s = -1
      [] x.s = 1 -> MagLess(x, y)
      [] OTHER -> MagLess(y, x)

\* x == y as floating-point comparison (NaN differs from everything)
FEq(x, y) ==
    IF IsNaN(x) \/ IsNaN(y) THEN FALSE
    ELSE IF IsZero(x) /\ IsZero(y) THEN TRUE
    ELSE x = y

FLessEq(x, y) == FLess(x, y) \/ FEq(x, y)

\* product of two finite non-zero numbers: the exact 2*Prec-bit product is
\* assembled from 15-bit halves as hi * 2^30 + lo and rounded once
MulFinite(x, y) ==
    LET h1 == x.m \div 32768
        l1 == x.m % 32768
        h2 == y.m \div 32768
        l2 == y.m % 32768
        low == l1 * l2
        t == h1 * l2 + l1 * h2 + (low \div 32768)
        hi == h1 * h2 + (t \div 32768)
        lo == (t % 32768) * 32768 + (low % 32768)
        d == Prec - BitLen(hi)
        den == 2^(30 - d)
    IN  Rounded(x.s * y.s, hi * 2^d + (lo \div den), lo % den, den,
                x.e + y.e + 30 - d)

FMul(x, y) ==
    CASE IsNaN(x) \/ IsNaN(y) -> NaN
      [] IsInf(x) \/ IsInf(y) -> IF IsZero(x) \/ IsZero(y) THEN NaN ELSE Inf(x.s * y.s)
      [] x.m = 0 \/ y.m = 0 -> Zero(x.s * y.s)
      [] OTHER -> MulFinite(x, y)

\* a loop of n steps is evaluated as six consecutive runs of steps, the
\* i-th run ending after Cut(n, i) steps, so that the evaluation of a long
\* loop stays shallow
Cut(n, i) == (i * n) \div 6

\* one step of binary long division on <<quotient, remainder>>
DivStep(qr, d) ==
    IF 2 * qr[2] >= d THEN <<2 * qr[1] + 1, 2 * qr[2] - d>> ELSE <<2 * qr[1], 2 * qr[2]>>

\* n steps of binary long division: <<floor(r * 2^n / d) + q * 2^n, remainder>>
\* for qr = <<q, r>>, r < d
RECURSIVE LongDiv(_, _, _)
LongDiv(qr, d, n) ==
    CASE n = 0 -> qr
      [] n = 1 -> DivStep(qr, d)
      [] OTHER ->
           LET s1 == LongDiv(qr, d, Cut(n, 1))
               s2 == LongDiv(s1, d, Cut(n, 2) - Cut(n, 1))
               s3 == LongDiv(s2, d, Cut(n, 3) - Cut(n, 2))
               s4 == LongDiv(s3, d, Cut(n, 4) - Cut(n, 3))
               s5 == LongDiv(s4, d, Cut(n, 5) - Cut(n, 4))
           IN  <<s1, s2, s3, s4, s5, LongDiv(s5, d, n - Cut(n, 5))>>[6]

\* quotient of two finite non-zero numbers, rounded once
DivFinite(x, y) ==
    LET n == IF x.m >= y.m THEN Prec ELSE Prec + 1
        qr == LongDiv(<<x.m \div y.m, x.m % y.m>>, y.m, n)
        q == qr[1]
    IN  Rounded(x.s * y.s, q \div 2, 2 * (q % 2) + (IF qr[2] = 0 THEN 0 ELSE 1), 4,
                x.e - y.e - n + 1)

FDiv(x, y) ==
    CASE IsNaN(x) \/ IsNaN(y) -> NaN
      [] IsInf(x) -> IF IsInf(y) THEN NaN ELSE Inf(x.s * y.s)
      [] IsInf(y) -> Zero(x.s * y.s)
      [] y.m = 0 -> IF x.m = 0 THEN NaN ELSE Inf(x.s * y.s)
      [] x.m = 0 -> Zero(x.s * y.s)
      [] OTHER -> DivFinite(x, y)

\* sum of two finite non-zero numbers, big of the larger magnitude
AddOrdered(big, small) ==
    LET d == big.e - small.e
        den == 2^d
        q == small.m \div den
        rem == small.m % den
    IN  IF d >= Prec + 2 THEN big
        ELSE IF big.s = small.s
        THEN LET sum == big.m + q
             IN  IF sum < TwoP THEN Rounded(big.s, sum, rem, den, big.e)
                 ELSE Rounded(big.s, sum \div 2,
                              2 * (sum % 2) + (IF rem = 0 THEN 0 ELSE 1), 4, big.e + 1)
        ELSE IF rem = 0 THEN Normal(big.s, big.m - q, big.e)
        ELSE IF d = 1 THEN Normal(big.s, 2 * big.m - small.m, big.e - 1)
        ELSE LET i == big.m - q - 1
                 f == den - rem
             IN  IF i >= HalfP THEN Rounded(big.s, i, f, den, big.e)
                 ELSE LET bit == IF 2 * f >= den THEN 1 ELSE 0
                      IN  Rounded(big.s, 2 * i + bit, 2 * f - bit * den, den, big.e - 1)

FAdd(x, y) ==
    CASE IsNaN(x) \/ IsNaN(y) -> NaN
      [] IsInf(x) -> IF IsInf(y) /\ y.s # x.s THEN NaN ELSE x
      [] IsInf(y) -> y
      [] x.m = 0 /\ y.m = 0 -> Zero(IF x.s = -1 /\ y.s = -1 THEN -1 ELSE 1)
      [] x.m = 0 -> y
      [] y.m = 0 -> x
      [] x.m = y.m /\ x.e = y.e /\ x.s # y.s -> Zero(1)
      [] MagLess(x, y) -> AddOrdered(y, x)
      [] OTHER -> AddOrdered(x, y)

FSub(x, y) == FAdd(x, FNeg(y))

\* bit i of the significand m (0 outside 0..Prec-1)
BitOf(m, i) == IF i < 0 \/ i >= Prec THEN 0 ELSE (m \div 2^i) % 2

\* step j of the bit-pair square root of m * 2^sh on <<root, remainder>>
SqrtStep(m, sh, j, rr) ==
    LET top == 2 * Prec - 1 - 2 * j - sh
        rem2 == 4 * rr[2] + 2 * BitOf(m, top) + BitOf(m, top - 1)
        trial == 4 * rr[1] + 1
    IN  IF rem2 >= trial THEN <<2 * rr[1] + 1, rem2 - trial>> ELSE <<2 * rr[1], rem2>>

\* steps lo, ..., lo + n - 1 of the square root: after step Prec - 1,
\* <<floor(sqrt(m * 2^sh)), remainder>>
RECURSIVE SqrtLoop(_, _, _, _, _)
SqrtLoop(m, sh, lo, n, rr) ==
    CASE n = 0 -> rr
      [] n = 1 -> SqrtStep(m, sh, lo, rr)
      [] OTHER ->
           LET s1 == SqrtLoop(m, sh, lo, Cut(n, 1), rr)
               s2 == SqrtLoop(m, sh, lo + Cut(n, 1), Cut(n, 2) - Cut(n, 1), s1)
               s3 == SqrtLoop(m, sh, lo + Cut(n, 2), Cut(n, 3) - Cut(n, 2), s2)
               s4 == SqrtLoop(m, sh, lo + Cut(n, 3), Cut(n, 4) - Cut(n, 3), s3)
               s5 == SqrtLoop(m, sh, lo + Cut(n, 4), Cut(n, 5) - Cut(n, 4), s4)
           IN  <<s1, s2, s3, s4, s5,
                 SqrtLoop(m, sh, lo + Cut(n, 5), n - Cut(n, 5), s5)>>[6]

\* square root of a finite positive number, rounded once
SqrtFinite(x) ==
    LET sh == IF (x.e - Prec) % 2 = 0 THEN Prec ELSE Prec - 1
        rr == SqrtLoop(x.m, sh, 0, Prec, <<0, 0>>)
        r == IF rr[2] > rr[1] THEN rr[1] + 1 ELSE rr[1]
    IN  IF r = TwoP THEN Num(1, HalfP, ((x.e - sh) \div 2) + 1)
        ELSE Num(1, r, (x.e - sh) \div 2)

\* correctly rounded square root
FSqrt(x) ==
    CASE IsNaN(x) -> NaN
      [] IsZero(x) -> x
      [] x.s = -1 -> NaN
      [] IsInf(x) -> x
      [] OTHER -> SqrtFinite(x)

\* x ** n for an integer n >= 0, by repeated multiplication
RECURSIVE FPowNat(_, _)
FPowNat(x, n) == IF n = 0 THEN FromInt(1) ELSE FMul(FPowNat(x, n - 1), x)

\* the natural number n < 2^31 as limbs of 12 bits, least significant first
BigOf(n) == <<n % 4096, (n \div 4096) % 4096, n \div 16777216>>

\* limb i of the big natural A (0 outside its limbs)
LimbAt(A, i) == IF i >= 1 /\ i <= Len(A) THEN A[i] ELSE 0

\* the limbs of the column sums cols[i], cols[i + 1], ... with the carry c
RECURSIVE Carry(_, _, _)
Carry(cols, i, c) ==
    IF i > Len(cols)
    THEN IF c = 0 THEN <<>> ELSE <<c % 4096>> \o Carry(cols, i, c \div 4096)
    ELSE <<(cols[i] + c) % 4096>> \o Carry(cols, i + 1, (cols[i] + c) \div 4096)

\* the big natural A times the natural number n < 2^31
BigMulSmall(A, n) ==
    Carry(<<>> \o [k \in 1..(Len(A) + 2) |->
                     LimbAt(A, k) * BigOf(n)[1] + LimbAt(A, k - 1) * BigOf(n)[2]
                     + LimbAt(A, k - 2) * BigOf(n)[3]],
          1, 0)

\* m^n as a big natural
RECURSIVE BigPow(_, _)
BigPow(m, n) == IF n = 0 THEN <<1>> ELSE BigMulSmall(BigPow(m, n - 1), m)

\* number of bits of the big natural A
BigBitLen(A) ==
    LET top == CHOOSE i \in 0..Len(A) :
                   (i = 0 \/ A[i] # 0) /\ \A j \in (i + 1)..Len(A) : A[j] = 0
    IN  IF top = 0 THEN 0 ELSE 12 * (top - 1) + BitLen(A[top])

\* A * 2^k
BigShl(A, k) == BigMulSmall(<<>> \o [i \in 1..(k \div 12) |-> 0] \o A, 2^(k % 12))

\* -1, 0, 1 as A is below, equal to, above B
BigCmp(A, B) ==
    LET n == IF Len(A) > Len(B) THEN Len(A) ELSE Len(B)
        d == CHOOSE i \in 0..n :
                 /\ i = 0 \/ LimbAt(A, i) # LimbAt(B, i)
                 /\ \A j \in (i + 1)..n : LimbAt(A, j) = LimbAt(B, j)
    IN  IF d = 0 THEN 0 ELSE IF LimbAt(A, d) < LimbAt(B, d) THEN -1 ELSE 1

\* -1, 0, 1 as A * 2^a is below, equal to, above B * 2^b (A, B not 0)
ScaledCmp(A, a, B, b) ==
    CASE BigBitLen(A) + a < BigBitLen(B) + b -> -1
      [] BigBitLen(A) + a > BigBitLen(B) + b -> 1
      [] a >= b -> BigCmp(BigShl(A, a - b), B)
      [] OTHER -> BigCmp(A, BigShl(B, b - a))

\* the floating-point number j places after the finite non-zero number c
\* in the order of magnitudes (before it for j < 0)
Nudge(c, j) ==
    CASE c.m + j >= TwoP -> Num(c.s, HalfP + (c.m + j - TwoP), c.e + 1)
      [] c.m + j < HalfP -> Num(c.s, TwoP - (HalfP - (c.m + j)), c.e - 1)
      [] OTHER -> Num(c.s, c.m + j, c.e)

\* an approximation of x ** (h/2) for a finite x > 0, h # 0
PowApprox(x, h) ==
    CASE h > 0 /\ h % 2 = 0 -> FPowNat(x, h \div 2)
      [] h > 0 -> FMul(FPowNat(x, (h - 1) \div 2), FSqrt(x))
      [] h % 2 = 0 -> FDiv(FromInt(1), FPowNat(x, (-h) \div 2))
      [] OTHER -> FDiv(FromInt(1), FMul(FPowNat(x, (-h - 1) \div 2), FSqrt(x)))

\* -1, 0, 1 as x ** (h/2) is below, equal to, above the midpoint of c and
\* the floating-point number after it, (2 * c.m + 1) * 2^(c.e - 1), by the
\* exact comparison of the squares; M is x.m^|h|
PowCmp(x, h, M, c) ==
    IF h > 0
    THEN ScaledCmp(M, x.e * h, BigMulSmall(BigOf(2 * c.m + 1), 2 * c.m + 1),
                   2 * (c.e - 1))
    ELSE ScaledCmp(<<1>>, 0,
                   BigMulSmall(BigMulSmall(M, 2 * c.m + 1), 2 * c.m + 1),
                   2 * (c.e - 1) + x.e * (-h))

\* x ** (h/2) rounds to c or to a number below c
PowRoundsTo(x, h, M, c) ==
    PowCmp(x, h, M, c) < 0 \/ (PowCmp(x, h, M, c) = 0 /\ c.m % 2 = 0)

\* the number x ** (h/2) rounds to, among those within w places of a
PowNear(x, h, M, a, w) ==
    Nudge(a, CHOOSE j \in (1 - w)..w :
                 PowRoundsTo(x, h, M, Nudge(a, j)) /\ ~PowRoundsTo(x, h, M, Nudge(a, j - 1)))

\* x ** (h/2) of a finite x > 0, rounded once
PowFinite(x, h) ==
    PowNear(x, h, BigPow(x.m, IF h > 0 THEN h ELSE -h), PowApprox(x, h),
            (IF h > 0 THEN h ELSE -h) + 4)

\* pow(x, h/2) of the C library, h # 0: the sign of x is kept by an odd
\* integer exponent only, a negative x has no non-integer power
FPow(x, h) ==
    CASE IsNaN(x) -> NaN
      [] IsInf(x) -> IF h > 0 THEN Inf(IF h % 4 = 2 THEN x.s ELSE 1)
                     ELSE Zero(IF h % 4 = 2 THEN x.s ELSE 1)
      [] IsZero(x) -> IF h > 0 THEN Zero(IF h % 4 = 2 THEN x.s ELSE 1)
                      ELSE Inf(IF h % 4 = 2 THEN x.s ELSE 1)
      [] x.s = -1 /\ h % 2 = 1 -> NaN
      [] OTHER -> [PowFinite(FAbs(x), h) EXCEPT !.s = IF h % 4 = 2 THEN x.s ELSE 1]

\* x ** (h/2): the exponents 0, 1, 1/2, -1/2, -1, 2, 3 and -2 as the kernels
\* compute them, every other exponent by pow
FPowHalves(x, h) ==
    CASE h = 0 -> FromInt(1)
      [] h = 2 -> x
      [] h = 1 -> FSqrt(x)
      [] h = -1 -> FDiv(FromInt(1), FSqrt(x))
      [] h = -2 -> FDiv(FromInt(1), x)
      [] h = 4 -> FMul(x, x)
      [] h = 6 -> FMul(FMul(x, x), x)
      [] h = -4 -> FDiv(FromInt(1), FMul(x, x))
      [] OTHER -> FPow(x, h)

\* the decimal literal n * 10^(-k), rounded once
Dec(n, k) == FDiv(FromInt(n), FromInt(10^k))

\* ceil(x) of a finite x as an integer
Ceil(x) ==
    IF x.m = 0 THEN 0
    ELSE IF x.e >= 0 THEN x.s * x.m * 2^(x.e)
    ELSE IF -x.e > 30 THEN (IF x.s = 1 THEN 1 ELSE 0)
    ELSE LET d == 2^(-x.e)
         IN  IF x.s = 1 THEN (x.m \div d) + (IF x.m % d = 0 THEN 0 ELSE 1)
             ELSE -(x.m \div d)

(***************************************************************************)
(* numpy                                                                   *)
(***************************************************************************)

\* the array <<F(1), ..., F(n)>>
Array(F(_), n) == <<>> \o [i \in 1..n |-> F(i)]

\* np.arange(start, stop, step) on floats: ceil((stop - start) / step)
\* elements, start + i * delta with delta = (start + step) - start
np_arange(start, stop, step) ==
    LET len == Ceil(FDiv(FSub(stop, start), step))
        next == FAdd(start, step)
        delta == FSub(next, start)
    IN  Array(LAMBDA i : IF i = 1 THEN start
                         ELSE IF i = 2 THEN next
                         ELSE FAdd(start, FMul(FromInt(i - 1), delta)),
              len)

\* np.linspace(start, stop, num): arange(0, num) * step + start, the last
\* element set to stop
np_linspace(start, stop, num) ==
    LET div == num - 1
        delta == FSub(stop, start)
        step == FDiv(delta, FromInt(div))
    IN  Array(LAMBDA i :
                IF num > 1 /\ i = num THEN stop
                ELSE IF div > 0
                     THEN IF IsZero(step)
                          THEN FAdd(FMul(FDiv(FromInt(i - 1), FromInt(div)), delta), start)
                          ELSE FAdd(FMul(FromInt(i - 1), step), start)
                     ELSE FAdd(FMul(FromInt(i - 1), delta), start),
              num)

\* np.isclose(x, y) with the default rtol = 1e-5, atol = 1e-8, equal_nan off
np_isclose(x, y) ==
    \/ /\ IsFinite(y)
       /\ FLessEq(FAbs(FSub(x, y)), FAdd(Dec(1, 8), FMul(Dec(1, 5), FAbs(y))))
    \/ FEq(x, y)

\* np.allclose(A, B) on arrays of one shape
np_allclose(A, B) ==
    /\ Len(A) = Len(B)
    /\ \A i \in DOMAIN A : np_isclose(A[i], B[i])

(***************************************************************************)
(* The equation of state on numpy arrays                                   *)
(***************************************************************************)

\* pressure(T, v) of the script at one grid point, numpy semantics
pressure_np_at(Ti, vi) ==
    FSub(FDiv(FMul(Dec(8314, 3), Ti), FSub(vi, Dec(809, 7))),
         FDiv(Dec(2908, 2),
              FMul(FMul(FPowHalves(Ti, 1), vi), FAdd(vi, Dec(809, 7)))))

\* pressure(T, v) of the script on numpy arrays
pressure_np(TT, vv) == Array(LAMBDA i : pressure_np_at(TT[i], vv[i]), Len(TT))

(***************************************************************************)
(* torch: the autograd graph as a tape of nodes                            *)
(***************************************************************************)

\* a gradient that torch.autograd.grad reports as unused (Python None)
None == 0

\* a leaf tensor created with requires_grad=True
Leaf(arr) ==
    [op |-> "leaf", a |-> 0, b |-> 0, c |-> Zero(1), h |-> 0,
     rg |-> TRUE, grad |-> None, val |-> arr]

RECURSIVE SumTo(_, _)
SumTo(A, n) == IF n = 0 THEN Zero(1) ELSE FAdd(SumTo(A, n - 1), A[n])

\* an elementwise operation at one element: x, y the operands' elements,
\* c the scalar operand, h twice the exponent of pow
Elementwise(op, x, y, c, h) ==
    CASE op \in {"smul", "mul"} -> FMul(x, IF op = "mul" THEN y ELSE c)
      [] op \in {"sadd", "add"} -> FAdd(x, IF op = "add" THEN y ELSE c)
      [] op \in {"ssub", "sub"} -> FSub(x, IF op = "sub" THEN y ELSE c)
      [] op = "div" -> FDiv(x, y)
      [] op = "recip" -> FDiv(FromInt(1), x)
      [] op = "neg" -> FNeg(x)
      [] op = "pow" -> FPowHalves(x, h)

\* forward value of an operation on the values of its operands
NodeVal(tape, op, a, b, c, h) ==
    LET A == tape[a].val
    IN  CASE op = "sum" -> <<SumTo(A, Len(A))>>
          [] op = "expand" -> Array(LAMBDA i : A[1], h)
          [] op = "ones" -> <<FromInt(1)>>
          [] OTHER ->
               Array(LAMBDA i : Elementwise(op, A[i], IF b > 0 THEN tape[b].val[i] ELSE c,
                                            c, h),
                     Len(A))

\* the node of an operation; it requires grad when the graph is recorded
\* and an operand requires grad
MkNode(tape, record, op, a, b, c, h) ==
    [op |-> op, a |-> a, b |-> b, c |-> c, h |-> h,
     rg |-> record /\ ((a > 0 /\ tape[a].rg) \/ (b > 0 /\ tape[b].rg)),
     grad |-> None, val |-> NodeVal(tape, op, a, b, c, h)]

\* one tensor operation of a sequence of operations: an operand is a node
\* of the tape (a > 0) or the result of the k-th operation of the sequence
\* (a = -k)
Op2(op, a, b) == [op |-> op, a |-> a, b |-> b, c |-> Zero(1), h |-> 0]

Op1(op, a) == [op |-> op, a |-> a, b |-> 0, c |-> Zero(1), h |-> 0]

OpScalar(op, a, c) == [op |-> op, a |-> a, b |-> 0, c |-> c, h |-> 0]

OpPow(a, h) == [op |-> "pow", a |-> a, b |-> 0, c |-> Zero(1), h |-> h]

Ref(r, base) == IF r < 0 THEN base - r ELSE r

\* tape with the node of the operation ops[n] appended
RunOp(tape, record, ops, base, n) ==
    Append(tape, MkNode(tape, record, ops[n].op, Ref(ops[n].a, base),
                        Ref(ops[n].b, base), ops[n].c, ops[n].h))

\* tape with the nodes of the n operations ops[lo], ops[lo + 1], ...
\* appended in order
RECURSIVE RunRange(_, _, _, _, _, _)
RunRange(tape, record, ops, base, lo, n) ==
    CASE n = 0 -> tape
      [] n = 1 -> RunOp(tape, record, ops, base, lo)
      [] OTHER ->
           LET s1 == RunRange(tape, record, ops, base, lo, Cut(n, 1))
               s2 == RunRange(s1, record, ops, base, lo + Cut(n, 1), Cut(n, 2) - Cut(n, 1))
               s3 == RunRange(s2, record, ops, base, lo + Cut(n, 2), Cut(n, 3) - Cut(n, 2))
               s4 == RunRange(s3, record, ops, base, lo + Cut(n, 3), Cut(n, 4) - Cut(n, 3))
               s5 == RunRange(s4, record, ops, base, lo + Cut(n, 4), Cut(n, 5) - Cut(n, 4))
           IN  <<s1, s2, s3, s4, s5,
                 RunRange(s5, record, ops, base, lo + Cut(n, 5), n - Cut(n, 5))>>[6]

\* tape with the nodes of the operations ops[1..n] appended in order
Run(tape, record, ops, base, n) == RunRange(tape, record, ops, base, 1, n)

\* forward tracing of a sequence of operations
Trace(tape, ops) == Run(tape, TRUE, ops, Len(tape), Len(ops))

\* operations whose backward reads tensors saved at forward time
HasSaved(op) == op \in {"smul", "mul", "div", "pow", "recip"}

\* the backward formula of node n (at index i) for the incoming gradient
\* node g: the operations it runs, and which operand (to) receives which
\* result (from); ra, rb tell which operands require grad
Formula(n, i, g, ra, rb, size) ==
    LET forA(ops, from) == IF ra THEN [ops |-> ops, acc |-> <<[to |-> n.a, from |-> from]>>]
                           ELSE [ops |-> <<>>, acc |-> <<>>]
        withB(fa, ops, from) ==
            IF rb THEN [ops |-> fa.ops \o ops, acc |-> Append(fa.acc, [to |-> n.b, from |-> from])]
            ELSE fa
        k == IF ra THEN 1 ELSE 0
    IN  CASE n.op = "smul" -> forA(<<OpScalar("smul", g, n.c)>>, -1)
          [] n.op \in {"sadd", "ssub"} -> forA(<<>>, g)
          [] n.op = "add" -> withB(forA(<<>>, g), <<>>, g)
          [] n.op = "sub" -> withB(forA(<<>>, g), <<Op1("neg", g)>>, -1)
          [] n.op = "mul" ->
               withB(forA(<<Op2("mul", g, n.b)>>, -1), <<Op2("mul", g, n.a)>>, -(k + 1))
          [] n.op = "div" ->
               withB(forA(<<Op2("div", g, n.b)>>, -1),
                     <<Op1("neg", g), Op2("div", n.a, n.b), Op2("div", -(k + 2), n.b),
                       Op2("mul", -(k + 1), -(k + 3))>>, -(k + 4))
          [] n.op = "neg" -> forA(<<Op1("neg", g)>>, -1)
          [] n.op = "recip" ->
               forA(<<Op1("neg", g), Op2("mul", i, i), Op2("mul", -1, -2)>>, -3)
          [] n.op = "pow" ->
               forA(<<OpPow(n.a, n.h - 2),
                      OpScalar("smul", -1, FDiv(FromInt(n.h), FromInt(2))),
                      Op2("mul", g, -2)>>, -3)
          [] n.op = "sum" ->
               forA(<<[op |-> "expand", a |-> g, b |-> 0, c |-> Zero(1), h |-> size]>>, -1)
          [] n.op = "expand" -> forA(<<Op1("sum", g)>>, -1)

\* Accumulate as Tensor.backward() does it for a leaf: the gradient is
\* written into the .grad field of the node it flows into
Accumulate_InPlace(st, target, gi) ==
    IF st.g[target] = None
    THEN [st EXCEPT !.g[target] = gi, !.tape[target].grad = gi]
    ELSE [st EXCEPT !.tape = [Run(@, st.create, <<Op2("add", st.g[target], gi)>>, 0, 1)
                                EXCEPT ![target].grad = Len(st.tape) + 1],
                    !.g[target] = Len(st.tape) + 1]

\* the gradient node gi flows into node target: the first contribution is
\* kept as it is, a later one is added to the sum so far in a new node
Accumulate(st, target, gi) ==
    IF st.g[target] = None THEN [st EXCEPT !.g[target] = gi]
    ELSE [st EXCEPT !.tape = Run(@, st.create, <<Op2("add", st.g[target], gi)>>, 0, 1),
                    !.g[target] = Len(st.tape) + 1]

RECURSIVE AccumulateAll(_, _, _, _)
AccumulateAll(st, acc, base, n) ==
    IF n = 0 THEN st
    ELSE Accumulate(AccumulateAll(st, acc, base, n - 1), acc[n].to, Ref(acc[n].from, base))

\* the backward formula of node i, applied to its incoming gradient
BackOp(st, i) ==
    LET n == st.tape[i]
        f == Formula(n, i, st.g[i], n.a > 0 /\ st.tape[n.a].rg, n.b > 0 /\ st.tape[n.b].rg,
                     IF n.a > 0 THEN Len(st.tape[n.a].val) ELSE 0)
        base == Len(st.tape)
        s1 == [st EXCEPT !.tape = Run(@, st.create, f.ops, base, Len(f.ops))]
    IN  AccumulateAll(s1, f.acc, base, Len(f.acc))

\* the backward pass at node i: a node without incoming gradient, one that
\* does not require grad, or a leaf runs nothing; a node whose saved tensors
\* were released raises
BackNode(st, i) ==
    IF st.err # "" THEN st
    ELSE LET n == st.tape[i]
         IN  IF st.g[i] = None \/ ~n.rg \/ n.op = "leaf" THEN st
             ELSE IF HasSaved(n.op) /\ i \in st.released
                  THEN [st EXCEPT !.err = "RuntimeError"]
             ELSE [BackOp(st, i) EXCEPT !.ran = @ \cup {i}]

\* the backward pass over the n nodes hi, hi - 1, ... in reverse order of
\* creation
RECURSIVE BackRange(_, _, _)
BackRange(st, hi, n) ==
    CASE n = 0 -> st
      [] n = 1 -> BackNode(st, hi)
      [] OTHER ->
           LET s1 == BackRange(st, hi, Cut(n, 1))
               s2 == BackRange(s1, hi - Cut(n, 1), Cut(n, 2) - Cut(n, 1))
               s3 == BackRange(s2, hi - Cut(n, 2), Cut(n, 3) - Cut(n, 2))
               s4 == BackRange(s3, hi - Cut(n, 3), Cut(n, 4) - Cut(n, 3))
               s5 == BackRange(s4, hi - Cut(n, 4), Cut(n, 5) - Cut(n, 4))
           IN  <<s1, s2, s3, s4, s5, BackRange(s5, hi - Cut(n, 5), n - Cut(n, 5))>>[6]

\* the backward pass from node i down
Backward(st, i) == BackRange(st, i, i)

\* the state in which the backward pass starts: t1 is the tape with the
\* output node last; its incoming gradient is a tensor of ones
GradStart(t1, released, flags) ==
    [tape |-> Run(t1, flags.create_graph, <<Op1("ones", 0)>>, 0, 1),
     g |-> [[i \in 1..Len(t1) |-> None] EXCEPT ![Len(t1)] = Len(t1) + 1],
     err |-> IF t1[Len(t1)].rg THEN "" ELSE "RuntimeError",
     ran |-> {}, released |-> released, create |-> flags.create_graph]

\* the state in which the call returns: without retain_graph the buffers of
\* the nodes that ran are released; without allow_unused an input that was
\* not reached is an error
GradEnd(st, inputs, flags) ==
    [st EXCEPT
        !.released = IF flags.retain_graph THEN @ ELSE @ \cup st.ran,
        !.err = IF @ = "" /\ ~flags.allow_unused
                          /\ \E x \in DOMAIN inputs : st.g[inputs[x]] = None
                THEN "RuntimeError" ELSE @]

\* torch.autograd.grad([out], inputs, retain_graph, create_graph, allow_unused)
\* with out the sum of node of: the tape after the call, the gradient node
\* of each input (None when the input was not reached), the nodes whose
\* buffers are released, and the error raised, if any
autograd_grad(tape, released, of, inputs, flags) ==
    GradEnd(Backward(GradStart(Trace(tape, <<Op1("sum", of)>>), released, flags),
                     Len(tape) + 1),
            inputs, flags)

(***************************************************************************)
(* The equation of state and its closed-form derivatives on torch tensors  *)
(***************************************************************************)

\* pressure(T, v) of the script as the tensor operations it runs, in the
\* order Python evaluates them; the result is the last one.
\* scalar / tensor is tensor.reciprocal() * scalar
pressure_tc(T, v) ==
    << OpScalar("smul", T, Dec(8314, 3)),       \* 8.314 * T
       OpScalar("ssub", v, Dec(809, 7)),        \* v - 8.09e-5
       Op2("div", -1, -2),
       OpPow(T, 1),                             \* T**(0.5)
       Op2("mul", -4, v),
       OpScalar("sadd", v, Dec(809, 7)),        \* v + 8.09e-5
       Op2("mul", -5, -6),
       Op1("recip", -7),                        \* 29.08 / (...)
       OpScalar("smul", -8, Dec(2908, 2)),
       Op2("sub", -3, -9) >>

\* dP_by_dT with 3 / 2 evaluated as an integer division: T**1
dP_by_dT_IntegerDivision(T, v) ==
    << OpScalar("ssub", v, Dec(809, 7)),
       Op1("recip", -1),
       OpScalar("smul", -2, Dec(8314, 3)),
       OpPow(T, 2),
       OpScalar("smul", -4, FromInt(2)),
       Op2("mul", -5, v),
       OpScalar("sadd", v, Dec(809, 7)),
       Op2("mul", -6, -7),
       Op1("recip", -8),
       OpScalar("smul", -9, Dec(2908, 2)),
       Op2("add", -3, -10) >>

\* dP_by_dT(T, v) as tensor operations
dP_by_dT(T, v) ==
    << OpScalar("ssub", v, Dec(809, 7)),        \* v - 8.09e-5
       Op1("recip", -1),                        \* 8.314 / (...)
       OpScalar("smul", -2, Dec(8314, 3)),
       OpPow(T, 3),                             \* T**(3 / 2)
       OpScalar("smul", -4, FromInt(2)),        \* 2 * ...
       Op2("mul", -5, v),
       OpScalar("sadd", v, Dec(809, 7)),        \* v + 8.09e-5
       Op2("mul", -6, -7),
       Op1("recip", -8),                        \* 29.08 / (...)
       OpScalar("smul", -9, Dec(2908, 2)),
       Op2("add", -3, -10) >>

\* dP_by_dv with the numerator 29.08 * (v + 8.09e-5): the factor 2 of the
\* derivative of v**2 is lost
dP_by_dv_LostFactor(T, v) ==
    << OpScalar("smul", v, FromInt(1)),
       OpScalar("sadd", -1, Dec(809, 7)),
       OpScalar("smul", -2, Dec(2908, 2)),
       OpPow(T, 1),
       OpPow(v, 4),
       Op2("mul", -4, -5),
       OpScalar("sadd", v, Dec(809, 7)),
       OpPow(-7, 4),
       Op2("mul", -6, -8),
       OpScalar("smul", T, FNeg(Dec(8314, 3))),
       OpScalar("ssub", v, Dec(809, 7)),
       OpPow(-11, 4),
       Op2("div", -10, -12),
       Op2("div", -3, -9),
       Op2("add", -13, -14) >>

\* dP_by_dv(T, v) as tensor operations
dP_by_dv(T, v) ==
    << OpScalar("smul", v, FromInt(2)),         \* 2 * v
       OpScalar("sadd", -1, Dec(809, 7)),       \* ... + 8.09e-5
       OpScalar("smul", -2, Dec(2908, 2)),      \* numerator
       OpPow(T, 1),                             \* T**(1 / 2)
       OpPow(v, 4),                             \* v**2
       Op2("mul", -4, -5),
       OpScalar("sadd", v, Dec(809, 7)),        \* v + 8.09e-5
       OpPow(-7, 4),                            \* (...)**2
       Op2("mul", -6, -8),                      \* denominator
       OpScalar("smul", T, FNeg(Dec(8314, 3))), \* -8.314 * T
       OpScalar("ssub", v, Dec(809, 7)),        \* v - 8.09e-5
       OpPow(-11, 4),                           \* (...)**2
       Op2("div", -10, -12),
       Op2("div", -3, -9),                      \* numerator / denominator
       Op2("add", -13, -14) >>

\* value of the last node of a tape
Last(tape) == tape[Len(tape)].val

(***************************************************************************)
(* The script                                                              *)
(***************************************************************************)

VARIABLES
    pc,        \* the statement to execute next, by its line
    args,      \* the literals of the arange / linspace calls
    T,         \* the Python name T
    v,         \* the Python name v
    np_pres,   \* the Python name np_pres
    tape,      \* the autograd graph
    released,  \* nodes of the graph whose saved buffers were released
    tc_pres,   \* the Python name tc_pres (a node of the graph)
    dPdT,      \* the Python name dPdT (a node of the graph, or None)
    dPdv,      \* the Python name dPdv (a node of the graph, or None)
    out,       \* standard output, one entry per print call
    err        \* the exception that ended the run, if any

vars == <<pc, args, T, v, np_pres, tape, released, tc_pres, dPdT, dPdv, out, err>>

\* number of further temperature sweeps, each starting 15 degrees higher
MaxTShift == 2

\* number of further molar-volume ranges, starting at 0, b, 2b, ...
MaxVShift == 2

\* the literals of the script: arange(25 + 273.15, 100 + 273.15, 15) and
\* linspace(1.27e-3, 2.59e-3, n)
ScriptArgs == [c0 |-> 25, c1 |-> 100, lo |-> <<127, 5>>, hi |-> <<259, 5>>]

\* the grids explored: the script's, and others built in the same way
Grids ==
    {[c0 |-> s[1], c1 |-> s[2], lo |-> l, hi |-> ScriptArgs.hi] :
        s \in {<<ScriptArgs.c0 + 15 * i, ScriptArgs.c1>> : i \in 0..MaxTShift}
              \cup {<<-300, -255>>},
        l \in {ScriptArgs.lo} \cup {<<809 * j, 7>> : j \in 0..MaxVShift}}

Unset == [lib |-> "unset", val |-> <<>>, node |-> 0]

\* the temperature sweep with the upper end included:
\* np.arange(c0 + 273.15, c1 + 273.15 + 15, 15)
TGrid_Inclusive(a) ==
    np_arange(FAdd(FromInt(a.c0), Dec(27315, 2)),
              FAdd(FAdd(FromInt(a.c1), Dec(27315, 2)), FromInt(15)), FromInt(15))

\* np.arange(c0 + 273.15, c1 + 273.15, 15)
TGrid(a) ==
    np_arange(FAdd(FromInt(a.c0), Dec(27315, 2)), FAdd(FromInt(a.c1), Dec(27315, 2)),
              FromInt(15))

\* np.linspace(lo, hi, n)
vGrid(a, n) == np_linspace(Dec(a.lo[1], a.lo[2]), Dec(a.hi[1], a.hi[2]), n)

\* an entry of standard output: arrays (rows), a boolean, or None
PrintRows(tag, rows) == [tag |-> tag, rows |-> rows, ok |-> FALSE, none |-> FALSE]

PrintBool(tag, b) == [tag |-> tag, rows |-> <<>>, ok |-> b, none |-> FALSE]

PrintNone(tag) == [tag |-> tag, rows |-> <<>>, ok |-> FALSE, none |-> TRUE]

PrintTensor(tag, node) ==
    IF node = None THEN PrintNone(tag) ELSE PrintRows(tag, <<tape[node].val>>)

TypeOK ==
    /\ pc \in {"L13", "L14", "L15", "L16", "L21", "L22", "L23", "L24", "L27", "L30",
               "L35", "L36", "L50", "L51", "L54", "L61", "done", "raised", "exited"}
    /\ args \in Grids
    /\ err \in {"", "AttributeError", "TypeError", "RuntimeError"}

Init ==
    /\ pc = "L13"
    /\ args \in Grids
    /\ T = Unset
    /\ v = Unset
    /\ np_pres = <<>>
    /\ tape = <<>>
    /\ released = {}
    /\ tc_pres = 0
    /\ dPdT = None
    /\ dPdv = None
    /\ out = <<>>
    /\ err = ""

\* the first-order call without retain_graph
FirstOrderFlags_NoRetain ==
    [retain_graph |-> FALSE, create_graph |-> TRUE, allow_unused |-> TRUE]

\* the first-order call without create_graph
FirstOrderFlags_NoCreate ==
    [retain_graph |-> TRUE, create_graph |-> FALSE, allow_unused |-> TRUE]

\* the keyword arguments of the three torch.autograd.grad calls
FirstOrderFlags == [retain_graph |-> TRUE, create_graph |-> TRUE, allow_unused |-> TRUE]

SecondOrderFlagsT == [retain_graph |-> TRUE, create_graph |-> TRUE, allow_unused |-> TRUE]

SecondOrderFlagsV == [retain_graph |-> TRUE, create_graph |-> TRUE, allow_unused |-> TRUE]

\* the run ends with an unhandled exception
Raise(e) ==
    /\ pc' = "raised"
    /\ err' = e

\* line 13: T = np.arange(25 + 273.15, 100 + 273.15, 15)
L13 ==
    /\ pc = "L13"
    /\ T' = [lib |-> "numpy", val |-> TGrid(args), node |-> 0]
    /\ pc' = "L14"
    /\ UNCHANGED <<args, v, np_pres, tape, released, tc_pres, dPdT, dPdv, out, err>>

\* line 14: v = np.linspace(1.27e-3, 2.59e-3, T.shape[0])
L14 ==
    /\ pc = "L14"
    /\ v' = [lib |-> "numpy", val |-> vGrid(args, Len(T.val)), node |-> 0]
    /\ pc' = "L15"
    /\ UNCHANGED <<args, T, np_pres, tape, released, tc_pres, dPdT, dPdv, out, err>>

\* line 15: np_pres = pressure(T, v)
L15 ==
    /\ pc = "L15"
    /\ np_pres' = pressure_np(T.val, v.val)
    /\ pc' = "L16"
    /\ UNCHANGED <<args, T, v, tape, released, tc_pres, dPdT, dPdv, out, err>>

\* line 16: print(np_pres)
L16 ==
    /\ pc = "L16"
    /\ out' = Append(out, PrintRows("np_pres", <<np_pres>>))
    /\ pc' = "L21"
    /\ UNCHANGED <<args, T, v, np_pres, tape, released, tc_pres, dPdT, dPdv, err>>

\* line 21: T = torch.tensor(np.arange(...), requires_grad=True)
L21 ==
    /\ pc = "L21"
    /\ tape' = Append(tape, Leaf(TGrid(args)))
    /\ T' = [lib |-> "torch", val |-> TGrid(args), node |-> Len(tape) + 1]
    /\ pc' = "L22"
    /\ UNCHANGED <<args, v, np_pres, released, tc_pres, dPdT, dPdv, out, err>>

\* line 22 with the upper literal of the range mistyped: 2.95e-3 for 2.59e-3
L22_OtherRange ==
    /\ pc = "L22"
    /\ tape' = Append(tape, Leaf(vGrid([args EXCEPT !.hi = <<295, 5>>], Len(T.val))))
    /\ v' = [lib |-> "torch", val |-> vGrid([args EXCEPT !.hi = <<295, 5>>], Len(T.val)),
             node |-> Len(tape) + 1]
    /\ pc' = "L23"
    /\ UNCHANGED <<args, T, np_pres, released, tc_pres, dPdT, dPdv, out, err>>

\* line 22: v = torch.tensor(np.linspace(..., T.shape[0]), requires_grad=True)
L22 ==
    /\ pc = "L22"
    /\ tape' = Append(tape, Leaf(vGrid(args, Len(T.val))))
    /\ v' = [lib |-> "torch", val |-> vGrid(args, Len(T.val)), node |-> Len(tape) + 1]
    /\ pc' = "L23"
    /\ UNCHANGED <<args, T, np_pres, released, tc_pres, dPdT, dPdv, out, err>>

\* line 23: tc_pres = pressure(T, v)
L23 ==
    /\ pc = "L23"
    /\ tape' = Trace(tape, pressure_tc(T.node, v.node))
    /\ tc_pres' = Len(tape')
    /\ pc' = "L24"
    /\ UNCHANGED <<args, T, v, np_pres, released, dPdT, dPdv, out, err>>

\* line 24: print(tc_pres)
L24 ==
    /\ pc = "L24"
    /\ out' = Append(out, PrintTensor("tc_pres", tc_pres))
    /\ pc' = "L27"
    /\ UNCHANGED <<args, T, v, np_pres, tape, released, tc_pres, dPdT, dPdv, err>>

\* line 27: print(np.allclose(tc_pres.detach().numpy(), np_pres))
L27 ==
    /\ pc = "L27"
    /\ out' = Append(out, PrintBool("pres_close", np_allclose(tape[tc_pres].val, np_pres)))
    /\ pc' = "L30"
    /\ UNCHANGED <<args, T, v, np_pres, tape, released, tc_pres, dPdT, dPdv, err>>

\* the assignment of the result r of the first-order call
FirstOrder(r) ==
    /\ tape' = r.tape
    /\ released' = r.released
    /\ IF r.err # ""
       THEN Raise(r.err) /\ UNCHANGED <<dPdT, dPdv>>
       ELSE /\ dPdT' = r.g[T.node]
            /\ dPdv' = r.g[v.node]
            /\ pc' = "L35"
            /\ UNCHANGED err

\* lines 30-34: dPdT, dPdv = torch.autograd.grad([tc_pres.sum()], [T, v], ...)
L30 ==
    /\ pc = "L30"
    /\ FirstOrder(autograd_grad(tape, released, tc_pres, <<T.node, v.node>>,
                                FirstOrderFlags))
    /\ UNCHANGED <<args, T, v, np_pres, tc_pres, out>>

\* line 35 printing the other derivative: print("dP/dv:", dPdv)
L35_Swapped ==
    /\ pc = "L35"
    /\ out' = Append(out, PrintTensor("dP/dv", dPdv))
    /\ pc' = "L36"
    /\ UNCHANGED <<args, T, v, np_pres, tape, released, tc_pres, dPdT, dPdv, err>>

\* line 35: print("dP/dT:", dPdT)
L35 ==
    /\ pc = "L35"
    /\ out' = Append(out, PrintTensor("dP/dT", dPdT))
    /\ pc' = "L36"
    /\ UNCHANGED <<args, T, v, np_pres, tape, released, tc_pres, dPdT, dPdv, err>>

\* line 36: print("dP/dv:", dPdv)
L36 ==
    /\ pc = "L36"
    /\ out' = Append(out, PrintTensor("dP/dv", dPdv))
    /\ pc' = "L50"
    /\ UNCHANGED <<args, T, v, np_pres, tape, released, tc_pres, dPdT, dPdv, err>>

\* line 50: print(np.allclose(dPdT.detach().numpy(), dP_by_dT(T, v).detach().numpy()))
\* None has no detach
L50 ==
    /\ pc = "L50"
    /\ IF dPdT = None
       THEN Raise("AttributeError") /\ UNCHANGED out
       ELSE /\ out' = Append(out, PrintBool("dPdT_close",
                         np_allclose(tape[dPdT].val, Last(Trace(tape, dP_by_dT(T.node, v.node))))))
            /\ pc' = "L51"
            /\ UNCHANGED err
    /\ UNCHANGED <<args, T, v, np_pres, tape, released, tc_pres, dPdT, dPdv>>

\* line 51: print(np.allclose(dPdv.detach().numpy(), dP_by_dv(T, v).detach().numpy()))
L51 ==
    /\ pc = "L51"
    /\ IF dPdv = None
       THEN Raise("AttributeError") /\ UNCHANGED out
       ELSE /\ out' = Append(out, PrintBool("dPdv_close",
                         np_allclose(tape[dPdv].val, Last(Trace(tape, dP_by_dv(T.node, v.node))))))
            /\ pc' = "L54"
            /\ UNCHANGED err
    /\ UNCHANGED <<args, T, v, np_pres, tape, released, tc_pres, dPdT, dPdv>>

\* print(torch.stack(r)) for the result r of a second-order call:
\* torch.stack does not take None
PrintStacked(r, tag, next) ==
    /\ tape' = r.tape
    /\ released' = r.released
    /\ IF r.err # ""
       THEN Raise(r.err) /\ UNCHANGED out
       ELSE IF r.g[T.node] = None \/ r.g[v.node] = None
       THEN Raise("TypeError") /\ UNCHANGED out
       ELSE /\ out' = Append(out, PrintRows(tag, <<r.tape[r.g[T.node]].val,
                                                   r.tape[r.g[v.node]].val>>))
            /\ pc' = next
            /\ UNCHANGED err
    /\ UNCHANGED <<args, T, v, np_pres, tc_pres, dPdT, dPdv>>

\* lines 54-60: print(torch.stack(torch.autograd.grad([dPdT.sum()], [T, v], ...)))
L54 ==
    /\ pc = "L54"
    /\ PrintStacked(autograd_grad(tape, released, dPdT, <<T.node, v.node>>,
                                  SecondOrderFlagsT), "d2_dPdT", "L61")

\* lines 61-67: print(torch.stack(torch.autograd.grad([dPdv.sum()], [T, v], ...)))
L61 ==
    /\ pc = "L61"
    /\ PrintStacked(autograd_grad(tape, released, dPdv, <<T.node, v.node>>,
                                  SecondOrderFlagsV), "d2_dPdv", "done")

\* the process ends, after the last statement or an unhandled exception,
\* and the graph goes with it
Exit ==
    /\ pc \in {"done", "raised"}
    /\ pc' = "exited"
    /\ released' = DOMAIN tape
    /\ UNCHANGED <<args, T, v, np_pres, tape, tc_pres, dPdT, dPdv, out, err>>

Next ==
    \/ L13 \/ L14 \/ L15 \/ L16 \/ L21 \/ L22 \/ L23 \/ L24 \/ L27
    \/ L30 \/ L35 \/ L36 \/ L50 \/ L51 \/ L54 \/ L61 \/ Exit

\* the script on each grid of Grids
Spec == Init /\ [][Next]_vars

(***************************************************************************)
(* Properties                                                              *)
(***************************************************************************)

\* the entries of standard output with the given tag
Printed(tag) == {i \in DOMAIN out : out[i].tag = tag}

\* the three equivalence checks of lines 27, 50 and 51
Checks == {"pres_close", "dPdT_close", "dPdv_close"}

\* every boolean printed by an equivalence check so far is True
ChecksTrue == \A i \in DOMAIN out : out[i].tag \in Checks => out[i].ok

AllPositive(A) == \A i \in DOMAIN A : FLess(Zero(1), A[i])

\* every element of A is above the excluded volume b = 8.09e-5
AllAboveB(A) == \A i \in DOMAIN A : FLess(Dec(809, 7), A[i])

AllFinite(A) == \A i \in DOMAIN A : IsFinite(A[i])

\* a valid grid: T > 0 and v > b at every index (the lengths are equal by
\* construction, v takes its length from T)
ValidGrid(a) ==
    /\ Len(TGrid(a)) > 0
    /\ AllPositive(TGrid(a))
    /\ AllAboveB(vGrid(a, Len(TGrid(a))))

\* no division of the tape t has a zero divisor
DivisorsNonZero(t) ==
    \A n \in DOMAIN t :
        /\ t[n].op = "div" => \A i \in DOMAIN t[n].val : ~IsZero(t[t[n].b].val[i])
        /\ t[n].op = "recip" => \A i \in DOMAIN t[n].val : ~IsZero(t[t[n].a].val[i])
        /\ t[n].op = "pow" /\ t[n].h < 0 =>
               \A i \in DOMAIN t[n].val : ~IsZero(t[t[n].a].val[i])

\* the tape of pressure, dP_by_dT and dP_by_dv evaluated on the grid TT, vv
Evaluations(TT, vv) ==
    Trace(Trace(Trace(<<Leaf(TT), Leaf(vv)>>, pressure_tc(1, 2)), dP_by_dT(1, 2)),
          dP_by_dv(1, 2))

\* the items of standard output, in the order of the print statements
ExpectedOrder ==
    <<"np_pres", "tc_pres", "pres_close", "dP/dT", "dP/dv", "dPdT_close", "dPdv_close",
      "d2_dPdT", "d2_dPdv">>

\* C1: on the script's grid, T = [298.15, ..., 358.15] and v = 5 evenly
\* spaced values in [1.27e-3, 2.59e-3], every equivalence check prints True
\* and the script ends with all three printed
C1_ChecksPrintTrue ==
    args = ScriptArgs =>
        /\ ChecksTrue
        /\ T.lib # "unset" =>
               np_allclose(T.val, <<Dec(29815, 2), Dec(31315, 2), Dec(32815, 2),
                                    Dec(34315, 2), Dec(35815, 2)>>)
        /\ v.lib # "unset" =>
               np_allclose(v.val, <<Dec(127, 5), Dec(160, 5), Dec(193, 5),
                                    Dec(226, 5), Dec(259, 5)>>)
        /\ pc = "done" => \A c \in Checks : Printed(c) # {}

C1_Witness ==
    /\ args = ScriptArgs
    /\ pc = "done"
    /\ \A c \in Checks : \E i \in Printed(c) : out[i].ok

\* C2: standard output always holds an initial part of the nine items in
\* their fixed order, so nothing is printed early or twice, and a run that
\* ends without raising has printed all nine
C2_OutputOrder ==
    /\ Len(out) <= Len(ExpectedOrder)
    /\ \A i \in DOMAIN out : out[i].tag = ExpectedOrder[i]
    /\ pc \in {"done", "exited"} /\ err = "" => Len(out) = Len(ExpectedOrder)

C2_Witness ==
    /\ pc = "done"
    /\ Len(out) = 9
    /\ out[4].tag = "dP/dT"
    /\ out[9].tag = "d2_dPdv"

\* C3: on every valid grid the automatic first-order derivatives are
\* elementwise close to dP_by_dT and dP_by_dv: both checks print True, and
\* the derivative arrays have the length of the grid
C3_AutodiffMatchesClosedForm ==
    ValidGrid(args) =>
        /\ \A i \in DOMAIN out : out[i].tag \in {"dPdT_close", "dPdv_close"} => out[i].ok
        /\ pc \in {"L35", "L36", "L50", "L51", "L54", "L61", "done"} =>
               /\ dPdT # None /\ Len(tape[dPdT].val) = Len(T.val)
               /\ dPdv # None /\ Len(tape[dPdv].val) = Len(v.val)
        /\ pc = "L54" => Printed("dPdT_close") # {} /\ Printed("dPdv_close") # {}

C3_Witness ==
    /\ ValidGrid(args)
    /\ args # ScriptArgs
    /\ \E i \in Printed("dPdT_close") : out[i].ok
    /\ \E i \in Printed("dPdv_close") : out[i].ok

\* C4: on every valid grid the pressure of the numeric backend and that of
\* the differentiable backend are close at every grid index, and line 27
\* prints True
C4_BackendsAgree ==
    ValidGrid(args) /\ tc_pres # 0 =>
        /\ Len(tape[tc_pres].val) = Len(np_pres)
        /\ \A i \in DOMAIN np_pres : np_isclose(tape[tc_pres].val[i], np_pres[i])
        /\ \A i \in Printed("pres_close") : out[i].ok
        /\ pc = "L30" => Printed("pres_close") # {}

C4_Witness ==
    /\ ValidGrid(args)
    /\ args # ScriptArgs
    /\ \E i \in Printed("pres_close") : out[i].ok
    /\ Len(np_pres) > 0

\* C5: on the script's grid both second-order calls succeed, and each of
\* the four second-order arrays holds five finite values
C5_SecondOrderFinite ==
    args = ScriptArgs =>
        /\ err = ""
        /\ \A i \in Printed("d2_dPdT") \cup Printed("d2_dPdv") :
               /\ Len(out[i].rows) = 2
               /\ \A r \in 1..2 : Len(out[i].rows[r]) = 5 /\ AllFinite(out[i].rows[r])
        /\ pc = "done" => Printed("d2_dPdT") # {} /\ Printed("d2_dPdv") # {}

C5_Witness ==
    /\ args = ScriptArgs
    /\ Printed("d2_dPdT") # {}
    /\ Printed("d2_dPdv") # {}

\* C8: the graph is not released before the process ends: no saved buffer
\* is released while the script runs, the first-order results are
\* differentiable, no gradient call fails, and the process end releases
\* the whole graph
C8_GraphRetained ==
    /\ pc # "exited" => released = {}
    /\ pc = "exited" => released = DOMAIN tape
    /\ pc \in {"L35", "L36", "L50", "L51", "L54", "L61"} =>
           /\ dPdT # None /\ tape[dPdT].rg
           /\ dPdv # None /\ tape[dPdv].rg
    /\ err = ""

C8_Witness ==
    /\ pc = "done"
    /\ Printed("d2_dPdT") # {}
    /\ Printed("d2_dPdv") # {}
    /\ released = {}

\* C9: the script's grid has five temperatures, the upper end of the sweep
\* excluded, and five molar volumes; every T is positive and every v is
\* above b, and no division of pressure, dP_by_dT or dP_by_dv on the grid
\* has a zero divisor
C9_GridSafe ==
    args = ScriptArgs =>
        /\ T.lib # "unset" =>
               /\ Len(T.val) = 5
               /\ AllPositive(T.val)
               /\ FLess(T.val[Len(T.val)], FAdd(FromInt(100), Dec(27315, 2)))
        /\ v.lib # "unset" => Len(v.val) = 5 /\ AllAboveB(v.val)
        /\ T.lib # "unset" /\ v.lib # "unset" => DivisorsNonZero(Evaluations(T.val, v.val))
        /\ DivisorsNonZero(tape)

C9_Witness ==
    /\ args = ScriptArgs
    /\ T.lib = "torch"
    /\ v.lib = "torch"
    /\ Len(T.val) = 5
    /\ pc = "done"

\* a step of a gradient call or of an equivalence check leaves the grid,
\* the pressure fields and the nodes already in the graph as they are
KeepsEntities ==
    pc \in {"L27", "L30", "L50", "L51", "L54", "L61"} =>
        /\ T' = T /\ v' = v /\ np_pres' = np_pres /\ tc_pres' = tc_pres
        /\ Len(tape') >= Len(tape)
        /\ SubSeq(tape', 1, Len(tape)) = tape
        /\ pc # "L30" => dPdT' = dPdT /\ dPdv' = dPdv
        /\ tape'[T.node].grad = None
        /\ tape'[v.node].grad = None

\* C10: a gradient call or an equivalence check changes neither the grid
\* nor a pressure field nor any node already in the graph, the checks
\* leave the first-order derivatives as they are, and the .grad of T and of
\* v stays unset
C10_NoMutation == [][KeepsEntities]_vars

C10_Witness ==
    /\ pc = "done"
    /\ Len(tape) > tc_pres
    /\ tape[T.node].grad = None
    /\ tape[v.node].grad = None
    /\ tape[T.node].val = TGrid(args)

====
